---- MODULE Spec2Model ----
(***************************************************************************)
(* Model of robustness_dataset.py: the RobustnessDataset helper class.     *)
(*                                                                         *)
(* State: the parsed manifest (meta) and the two structures __init__       *)
(* derives from it, the module-level lists that serve as default           *)
(* selections, the dataset root on disk (fs), and the caller's position    *)
(* (pc) with the call in progress, its outcome and the trace of file and   *)
(* progress-bar events the call produced.                                  *)
(*                                                                         *)
(* Python values: a dict is a function, a list is a sequence, a str is a   *)
(* string; a value whose Python type matters at run time (str or int, str  *)
(* or list) is a record [t |-> type, v |-> value].                         *)
(***************************************************************************)
EXTENDS Integers, Sequences, FiniteSets, TLC

VARIABLES
    meta,              \* self.meta["ids"]: sequence of [id, string, isomorph], in file order
    map_str_to_id,     \* self.map_str_to_id
    non_isomorph_ids,  \* self.non_isomorph_ids
    DATA_ALL,          \* module-level list, default of query's data
    KEYS_ALL,          \* module-level list, default of query's key
    KEYS_CC,           \* module-level list, RobustnessDataset.keys_cc
    measure_default,   \* the list object that is the default of query's measure
    fs,                \* the files under self.path: path |-> parsed JSON content
    pc,                \* "idle" or "returned": the caller's position
    call,              \* the call just made
    ret,               \* its outcome: a returned value or a raised exception
    log,               \* file and progress-bar events of the call, in order
    hist               \* earlier calls of a composition f(g(x)): <<[op, arg, ret], ...>>

vars == <<meta, map_str_to_id, non_isomorph_ids, DATA_ALL, KEYS_ALL, KEYS_CC,
          measure_default, fs, pc, call, ret, log, hist>>

index_vars == <<meta, map_str_to_id, non_isomorph_ids>>
module_vars == <<DATA_ALL, KEYS_ALL, KEYS_CC, measure_default>>

-----------------------------------------------------------------------------
(* Bounds of the exploration *)

\* longest key list passed to query
MaxKeys == 2
\* number of architecture ids a manifest may hold
MaxIds == 2
\* number of calls whose result is fed to a further call, f(g(h(x)))
MaxCompose == 2

-----------------------------------------------------------------------------
(* Module-level constants *)

DATA_CIFAR10 == "cifar10"
DATA_CIFAR100 == "cifar100"
DATA_IMAGENET16 == "ImageNet16-120"
KEYS_CLEAN == <<"clean">>
KEYS_ADV == <<"aa_apgd-ce@Linf", "aa_square@Linf", "fgsm@Linf", "pgd@Linf">>

\* the class attribute data_imagenet16
data_imagenet16 == DATA_IMAGENET16

-----------------------------------------------------------------------------
(* Python values *)

Range(s) == {s[j] : j \in 1..Len(s)}

None == [t |-> "None"]
PyStr(s) == [t |-> "str", v |-> s]
PyInt(n) == [t |-> "int", v |-> n]
PyList(l) == [t |-> "list", v |-> l]

EmptyDict == [x \in {} |-> x]

\* d[key] = value
DictSet(d, key, value) ==
    [x \in (DOMAIN d) \cup {key} |-> IF x = key THEN value ELSE d[x]]

\* del d[key]
DictDel(d, key) == [x \in (DOMAIN d) \ {key} |-> d[x]]

Digit == <<"0", "1", "2", "3", "4", "5", "6", "7", "8", "9">>

RECURSIVE IntToStr(_)
IntToStr(n) ==
    IF n < 10 THEN Digit[n + 1] ELSE IntToStr(n \div 10) \o Digit[(n % 10) + 1]

\* str(i) on an architecture id given as str or int
str(i) == IF i.t = "int" THEN IntToStr(i.v) ELSE i.v

\* an exception, with the source line that raises it
Raise(type, line) == [type |-> type, line |-> line]

-----------------------------------------------------------------------------
(* The dataset root *)

\* os.path.join(self.path, d, f"{k}_{m}.json"), relative to self.path
ResultFile(d, k, m) == d \o "/" \o k \o "_" \o m \o ".json"

\* os.path.isfile(file)
isfile(file) == file \in DOMAIN fs

\* the payload of a result file: architecture id |-> value
Payload(d, k, m) ==
    [i \in {"0", "1"} |-> <<ResultFile(d, k, m), i>>]

\* a result file of the documented shape, as json.load returns it
WellFormed(d, k, m) == d :> (k :> (m :> Payload(d, k, m)))

\* a file that parses but lacks the [d][k][m] nesting
Malformed == EmptyDict

\* r[d][k][m] can be evaluated
HasPath(r, d, k, m) ==
    /\ d \in DOMAIN r
    /\ k \in DOMAIN r[d]
    /\ m \in DOMAIN r[d][k]

-----------------------------------------------------------------------------
(* query: the loop state is [result, log, err]; err # None once a statement *)
(* has raised, and nothing runs after that.                                 *)

LogEvent(st, e) == [st EXCEPT !.log = Append(@, e)]

\* if pbar is not None: pbar.update(1)
pbar_update(st, pbar) == IF pbar THEN LogEvent(st, <<"update", 1>>) ELSE st

_ensure_list(l) == IF l.t # "list" THEN PyList(<<l.v>>) ELSE l

\* an argument left out takes the default list object
Arg(a, default) == IF a.t = "default" THEN PyList(default) ELSE a

\* a slip of Extract: the measure index is left off
Extract_NoMeasure(r, d, k, m) == r[d][k]

\* the right-hand side r[d][k][m]
Extract(r, d, k, m) == r[d][k][m]

\* with open(file) as f: r = json.load(f); result[d][k][m] = r[d][k][m]
read_file(st, d, k, m, file, pbar) ==
    LET s == LogEvent(st, <<"open", file>>) IN
    IF ~isfile(file)
    THEN [s EXCEPT !.err = Raise("FileNotFoundError", 119)]
    ELSE IF ~HasPath(fs[file], d, k, m) \/ k \notin DOMAIN s.result[d]
    THEN [s EXCEPT !.err = Raise("KeyError", 121)]
    ELSE pbar_update(
             [s EXCEPT !.result[d][k] = DictSet(@, m, Extract(fs[file], d, k, m))],
             pbar)

\* a slip of measure_body: a missing file is skipped whatever missing_ok is
measure_body_AlwaysTolerant(st, d, k, m, missing_ok, pbar) ==
    LET file == ResultFile(d, k, m) IN
    IF ~isfile(file)
    THEN pbar_update(st, pbar)
    ELSE read_file(st, d, k, m, file, pbar)

\* the body of "for m in measure"
measure_body(st, d, k, m, missing_ok, pbar) ==
    LET file == ResultFile(d, k, m) IN
    IF missing_ok
    THEN LET s == LogEvent(st, <<"isfile", file>>) IN
         IF ~isfile(file)
         THEN pbar_update(s, pbar)
         ELSE read_file(s, d, k, m, file, pbar)
    ELSE read_file(st, d, k, m, file, pbar)

RECURSIVE measure_loop(_, _, _, _, _, _, _)
measure_loop(st, d, k, measure, j, missing_ok, pbar) ==
    IF j > Len(measure) \/ st.err # None
    THEN st
    ELSE measure_loop(measure_body(st, d, k, measure[j], missing_ok, pbar),
                      d, k, measure, j + 1, missing_ok, pbar)

\* if len(result[d][k]) == 0: del result[d][k]
prune(st, d, k) ==
    IF k \notin DOMAIN st.result[d]
    THEN [st EXCEPT !.err = Raise("KeyError", 125)]
    ELSE IF Cardinality(DOMAIN st.result[d][k]) = 0
    THEN [st EXCEPT !.result[d] = DictDel(@, k)]
    ELSE st

\* the ImageNet16-120 corruption-key test of the key loop
excluded(d, k) == d = data_imagenet16 /\ k \in Range(KEYS_CC)

\* the body of "for k in key"
key_body(st, d, k, measure, missing_ok, pbar) ==
    IF excluded(d, k)
    THEN pbar_update(st, pbar)
    ELSE LET s == measure_loop(st, d, k, measure, 1, missing_ok, pbar) IN
         IF s.err # None THEN s ELSE prune(s, d, k)

RECURSIVE key_loop(_, _, _, _, _, _, _)
key_loop(st, d, key, j, measure, missing_ok, pbar) ==
    IF j > Len(key) \/ st.err # None
    THEN st
    ELSE key_loop(key_body(st, d, key[j], measure, missing_ok, pbar),
                  d, key, j + 1, measure, missing_ok, pbar)

RECURSIVE data_loop(_, _, _, _, _, _, _)
data_loop(st, data, j, key, measure, missing_ok, pbar) ==
    IF j > Len(data) \/ st.err # None
    THEN st
    ELSE data_loop(key_loop(st, data[j], key, 1, measure, missing_ok, pbar),
                   data, j + 1, key, measure, missing_ok, pbar)

\* the total the progress bar is constructed with
pbar_total(data, key, measure) == Len(data) * Len(key) * Len(measure)

\* result = {d:{k:{} for k in key} for d in data}
new_result(data, key) == [d \in Range(data) |-> [k \in Range(key) |-> EmptyDict]]

\* the whole of query on normalised lists: the final loop state
query_run(data, key, measure, missing_ok, pbar) ==
    LET st0 == [result |-> new_result(data, key),
                log |-> IF pbar THEN << <<"tqdm", pbar_total(data, key, measure)>> >>
                        ELSE << >>,
                err |-> None]
        s == data_loop(st0, data, 1, key, measure, missing_ok, pbar)
    IN  IF s.err = None /\ pbar THEN LogEvent(s, <<"close">>) ELSE s

Returned(value) == [status |-> "returned", value |-> value]
Raised(err) == [status |-> "raised", value |-> err]

\* what the caller gets: the result, or the exception and no result
Outcome(st) == IF st.err = None THEN Returned(st.result) ELSE Raised(st.err)

\* a slip of query: an exempt key is removed from the key list itself, which
\* is the module-level list when key is left out
query_RemovingKeys(data, key, measure, missing_ok, tqdm) ==
    /\ LET s == query_run(_ensure_list(Arg(data, DATA_ALL)).v,
                          _ensure_list(Arg(key, KEYS_ALL)).v,
                          _ensure_list(Arg(measure, measure_default)).v,
                          missing_ok, tqdm)
       IN  /\ ret' = Outcome(s)
           /\ log' = s.log
    /\ call' = [op |-> "query", data |-> data, key |-> key, measure |-> measure,
                missing_ok |-> missing_ok, tqdm |-> tqdm]
    /\ pc' = "returned"
    /\ hist' = << >>
    /\ KEYS_ALL' = IF key.t = "default" /\ data_imagenet16 \in Range(Arg(data, DATA_ALL).v)
                   THEN SelectSeq(KEYS_ALL, LAMBDA k : ~excluded(data_imagenet16, k))
                   ELSE KEYS_ALL
    /\ UNCHANGED <<index_vars, DATA_ALL, KEYS_CC, measure_default, fs>>

query(data, key, measure, missing_ok, tqdm) ==
    /\ LET s == query_run(_ensure_list(Arg(data, DATA_ALL)).v,
                          _ensure_list(Arg(key, KEYS_ALL)).v,
                          _ensure_list(Arg(measure, measure_default)).v,
                          missing_ok, tqdm)
       IN  /\ ret' = Outcome(s)
           /\ log' = s.log
    /\ call' = [op |-> "query", data |-> data, key |-> key, measure |-> measure,
                missing_ok |-> missing_ok, tqdm |-> tqdm]
    /\ pc' = "returned"
    /\ hist' = << >>
    /\ UNCHANGED <<index_vars, module_vars, fs>>

-----------------------------------------------------------------------------
(* The metadata index *)

\* a slip of build_map_str_to_id: the first id with an encoding is kept
RECURSIVE build_map_FirstWins(_, _)
build_map_FirstWins(ids, j) ==
    IF j = 0
    THEN EmptyDict
    ELSE LET before == build_map_FirstWins(ids, j - 1) IN
         IF ids[j].nb201_string \in DOMAIN before
         THEN before
         ELSE DictSet(before, ids[j].nb201_string, ids[j].id)

\* {m["nb201-string"]: k for k, m in self.meta["ids"].items()}, first j items
RECURSIVE build_map_str_to_id(_, _)
build_map_str_to_id(ids, j) ==
    IF j = 0
    THEN EmptyDict
    ELSE DictSet(build_map_str_to_id(ids, j - 1), ids[j].nb201_string, ids[j].id)

\* a slip of is_non_isomorph: the comparison is inverted
is_non_isomorph_Inverted(e) == e.isomorph # e.id

\* the condition of the list comprehension: d["isomorph"] == i
is_non_isomorph(e) == e.isomorph = e.id

\* a slip of build_non_isomorph_ids: the ids are collected last item first
RECURSIVE build_non_isomorph_ids_Reversed(_, _)
build_non_isomorph_ids_Reversed(ids, j) ==
    IF j = 0
    THEN << >>
    ELSE IF ids[j].isomorph = ids[j].id
    THEN <<ids[j].id>> \o build_non_isomorph_ids_Reversed(ids, j - 1)
    ELSE build_non_isomorph_ids_Reversed(ids, j - 1)

\* [i for i, d in self.meta["ids"].items() if d["isomorph"] == i], first j items
RECURSIVE build_non_isomorph_ids(_, _)
build_non_isomorph_ids(ids, j) ==
    IF j = 0
    THEN << >>
    ELSE IF is_non_isomorph(ids[j])
    THEN Append(build_non_isomorph_ids(ids, j - 1), ids[j].id)
    ELSE build_non_isomorph_ids(ids, j - 1)

\* the keys of self.meta["ids"]
meta_ids == {meta[j].id : j \in 1..Len(meta)}

\* self.meta["ids"][key], for a key that is present
meta_item(key) == meta[CHOOSE j \in 1..Len(meta) : meta[j].id = key]

\* self.meta["ids"][str(i)]["isomorph"]
get_uid_run(i) ==
    IF str(i) \in meta_ids
    THEN Returned(PyStr(meta_item(str(i)).isomorph))
    ELSE Raised(Raise("KeyError", 143))

\* self.meta["ids"][str(i)]["nb201-string"]
id_to_string_run(i) ==
    IF str(i) \in meta_ids
    THEN Returned(PyStr(meta_item(str(i)).nb201_string))
    ELSE Raised(Raise("KeyError", 156))

\* self.map_str_to_id[s]
string_to_id_run(s) ==
    IF s.t = "str" /\ s.v \in DOMAIN map_str_to_id
    THEN Returned(PyStr(map_str_to_id[s.v]))
    ELSE Raised(Raise("KeyError", 169))

\* the state after RobustnessDataset(path), path holding manifest ids and files
__init__(ids, files) ==
    /\ meta = ids
    /\ map_str_to_id = build_map_str_to_id(ids, Len(ids))
    /\ non_isomorph_ids = build_non_isomorph_ids(ids, Len(ids))
    /\ DATA_ALL = <<DATA_CIFAR10, DATA_CIFAR100, DATA_IMAGENET16>>
    /\ KEYS_CC = <<"brightness", "contrast", "defocus_blur", "elastic_transform",
                   "fog", "frost", "gaussian_noise", "glass_blur", "impulse_noise",
                   "jpeg_compression", "motion_blur", "pixelate", "shot_noise",
                   "snow", "zoom_blur">>
    /\ KEYS_ALL = KEYS_CLEAN \o KEYS_ADV \o KEYS_CC
    /\ measure_default = <<"accuracy", "confidence", "cm">>
    /\ fs = files
    /\ pc = "idle"
    /\ call = None
    /\ ret = None
    /\ log = << >>
    /\ hist = << >>

\* the caller passes i: a fresh argument, or the value the previous call returned
Passes(i, fresh, producers) ==
    \/ /\ pc = "idle"
       /\ i \in fresh
       /\ hist' = << >>
    \/ /\ pc = "returned"
       /\ ret.status = "returned"
       /\ call.op \in producers
       /\ Len(hist) < MaxCompose
       /\ i = ret.value
       /\ hist' = Append(hist, [op |-> call.op, arg |-> call.arg, ret |-> ret])

lookup(op, i, outcome) ==
    /\ ret' = outcome
    /\ call' = [op |-> op, arg |-> i]
    /\ pc' = "returned"
    /\ log' = << >>
    /\ UNCHANGED <<index_vars, module_vars, fs>>

get_uid(i) == lookup("get_uid", i, get_uid_run(i))

id_to_string(i) == lookup("id_to_string", i, id_to_string_run(i))

string_to_id(s) == lookup("string_to_id", s, string_to_id_run(s))

\* the caller drops the outcome of the last call and is free to call again
Discard ==
    /\ pc = "returned"
    /\ pc' = "idle"
    /\ call' = None
    /\ ret' = None
    /\ log' = << >>
    /\ hist' = << >>
    /\ UNCHANGED <<index_vars, module_vars, fs>>

-----------------------------------------------------------------------------
(* Inputs *)

IdUniverse == {IntToStr(n) : n \in 0..(MaxIds - 1)}
Encodings == {"A", "B"}

ManifestItems == [id : IdUniverse, nb201_string : Encodings, isomorph : IdUniverse]

\* manifests of at most MaxIds items; a JSON object read by json.load has distinct keys
Manifests ==
    {m \in UNION {[1..n -> ManifestItems] : n \in 0..MaxIds} :
        \A a, b \in 1..Len(m) : a # b => m[a].id # m[b].id}

ExampleManifest ==
    << [id |-> "0", nb201_string |-> "A", isomorph |-> "0"],
       [id |-> "1", nb201_string |-> "B", isomorph |-> "0"] >>

\* the result files a root may hold
Triples == {DATA_CIFAR10, DATA_IMAGENET16} \X {"clean", "brightness"} \X {"accuracy", "cm"}

PathOf(t) == ResultFile(t[1], t[2], t[3])

\* a root where the files of absent are missing and those of malformed are misshapen
Root(absent, malformed) ==
    [p \in {PathOf(t) : t \in Triples \ absent} |->
        LET t == CHOOSE u \in Triples : PathOf(u) = p IN
        IF t \in malformed THEN Malformed ELSE WellFormed(t[1], t[2], t[3])]

\* at most two files missing, at most one misshapen
Roots ==
    {Root({a, b}, c) : a \in Triples, b \in Triples,
                       c \in {{}} \cup {{t} : t \in Triples}}
    \cup {Root({}, c) : c \in {{}} \cup {{t} : t \in Triples}}

EmptyRoot == Root(Triples, {})

Default == [t |-> "default"]

RECURSIVE SeqsUpTo(_, _)
SeqsUpTo(S, n) ==
    IF n = 0 THEN {<< >>}
    ELSE LET shorter == SeqsUpTo(S, n - 1) IN
         shorter \cup {Append(l, x) : l \in shorter, x \in S}

DataArgs ==
    {PyStr(DATA_CIFAR10), PyStr(DATA_IMAGENET16),
     PyList(<<DATA_CIFAR10, DATA_IMAGENET16>>), PyList(<<DATA_IMAGENET16, DATA_CIFAR10>>),
     PyList(<<DATA_CIFAR10, DATA_CIFAR10>>)}

KeyArgs ==
    {PyStr("clean")} \cup {PyList(l) : l \in SeqsUpTo({"clean", "brightness"}, MaxKeys)}

MeasureArgs ==
    {PyStr("accuracy"), PyList(<< >>),
     PyList(<<"accuracy", "cm">>), PyList(<<"cm", "accuracy">>)}

\* selections that leave arguments out, so that the default lists are used
DefaultSelections ==
    {<<Default, Default, Default>>,
     <<Default, PyStr("clean"), PyStr("accuracy")>>,
     <<PyStr(DATA_IMAGENET16), Default, PyStr("accuracy")>>,
     <<PyList(<<DATA_CIFAR10>>), PyList(<<"clean">>), Default>>}

Selections == (DataArgs \X KeyArgs \X MeasureArgs) \cup DefaultSelections

IdArgs == {PyStr(s) : s \in IdUniverse} \cup {PyInt(n) : n \in 0..(MaxIds - 1)}

StringArgs == {PyStr(s) : s \in Encodings}

\* the value the previous call returned, when it returned one
Fed == IF pc = "returned" /\ ret.status = "returned" THEN {ret.value} ELSE {}

-----------------------------------------------------------------------------
(* Specifications *)

Init == \E files \in Roots : __init__(ExampleManifest, files)

InitIndex == \E ids \in Manifests : __init__(ids, EmptyRoot)

CallQuery ==
    /\ pc = "idle"
    /\ \E sel \in Selections, missing_ok \in BOOLEAN, tqdm \in BOOLEAN :
            query(sel[1], sel[2], sel[3], missing_ok, tqdm)

CallGetUid ==
    \E i \in IdArgs \cup Fed :
        Passes(i, IdArgs, {"get_uid", "string_to_id"}) /\ get_uid(i)

CallIdToString ==
    \E i \in IdArgs \cup Fed :
        Passes(i, IdArgs, {"get_uid", "string_to_id"}) /\ id_to_string(i)

CallStringToId ==
    \E s \in StringArgs \cup Fed :
        Passes(s, StringArgs, {"id_to_string"}) /\ string_to_id(s)

NextIndex == CallGetUid \/ CallIdToString \/ CallStringToId \/ Discard

Next == CallQuery \/ NextIndex

Spec == Init /\ [][Next]_vars

SpecIndex == InitIndex /\ [][NextIndex]_vars

-----------------------------------------------------------------------------
(* Properties of query.  They speak of the query call the state records:   *)
(* its normalised selection, the files of the root and the outcome.        *)

Queried == pc = "returned" /\ call.op = "query"
Completed == Queried /\ ret.status = "returned"

q_data == _ensure_list(Arg(call.data, DATA_ALL)).v
q_key == _ensure_list(Arg(call.key, KEYS_ALL)).v
q_measure == _ensure_list(Arg(call.measure, measure_default)).v

CorruptionKeys ==
    {"brightness", "contrast", "defocus_blur", "elastic_transform", "fog", "frost",
     "gaussian_noise", "glass_blur", "impulse_noise", "jpeg_compression",
     "motion_blur", "pixelate", "shot_noise", "snow", "zoom_blur"}

Exempt(d, k) == d = "ImageNet16-120" /\ k \in CorruptionKeys

Present(d, k, m) == ResultFile(d, k, m) \in DOMAIN fs
Sound(d, k, m) == Present(d, k, m) /\ HasPath(fs[ResultFile(d, k, m)], d, k, m)

InResult(d, k, m) ==
    /\ d \in DOMAIN ret.value
    /\ k \in DOMAIN ret.value[d]
    /\ m \in DOMAIN ret.value[d][k]

\* C1: a completed query returns, for every combination of the selection that
\* is not exempt and whose file exists and is well-formed, result[d][k][m]
\* equal to the payload the file stores under [d][k][m].
C1_PayloadVerbatim ==
    Completed =>
        \A d \in Range(q_data), k \in Range(q_key), m \in Range(q_measure) :
            (~Exempt(d, k) /\ Sound(d, k, m)) =>
                /\ InResult(d, k, m)
                /\ ret.value[d][k][m] = fs[ResultFile(d, k, m)][d][k][m]

\* the end-to-end example: cifar10/clean_accuracy.json alone is selected and read
C1_Witness ==
    /\ Completed
    /\ call.data = PyStr("cifar10")
    /\ call.key = PyStr("clean")
    /\ call.measure = PyStr("accuracy")
    /\ ret.value = "cifar10" :> ("clean" :> ("accuracy" :>
                       Payload("cifar10", "clean", "accuracy")))

\* C2: a completed query over ImageNet16-120 and a corruption key returns a
\* result with no entry for that key under ImageNet16-120, whatever missing_ok is.
C2_NoEntryForExemptKey ==
    Completed =>
        \A k \in Range(q_key) :
            ("ImageNet16-120" \in Range(q_data) /\ k \in CorruptionKeys) =>
                k \notin DOMAIN ret.value["ImageNet16-120"]

\* C3: the result of a completed query holds no empty placeholder: every
\* result[d][k] present is non-empty and holds only measures whose file was read.
C3_NoEmptyPlaceholder ==
    Completed =>
        \A d \in DOMAIN ret.value :
            \A k \in DOMAIN ret.value[d] :
                /\ DOMAIN ret.value[d][k] # {}
                /\ \A m \in DOMAIN ret.value[d][k] : Sound(d, k, m)

\* the combinations of the selection in iteration order: datasets outermost,
\* then keys, then measures
Total == Len(q_data) * Len(q_key) * Len(q_measure)
ComboAt(j) ==
    << q_data[((j - 1) \div (Len(q_key) * Len(q_measure))) + 1],
       q_key[(((j - 1) \div Len(q_measure)) % Len(q_key)) + 1],
       q_measure[((j - 1) % Len(q_measure)) + 1] >>
Visited(j) == ~Exempt(ComboAt(j)[1], ComboAt(j)[2])
AbsentAt(j) == Visited(j) /\ ~Present(ComboAt(j)[1], ComboAt(j)[2], ComboAt(j)[3])
SoundAt(j) == Sound(ComboAt(j)[1], ComboAt(j)[2], ComboAt(j)[3])
FirstAbsent == CHOOSE j \in 1..Total : AbsentAt(j) /\ \A i \in 1..(j - 1) : ~AbsentAt(i)

\* the open() calls of the visited combinations 1..j, in order
RECURSIVE OpensUpTo(_)
OpensUpTo(j) ==
    IF j = 0 THEN << >>
    ELSE IF Visited(j)
    THEN Append(OpensUpTo(j - 1), <<"open", PathOf(ComboAt(j))>>)
    ELSE OpensUpTo(j - 1)

IsOpen(e) == e[1] = "open"
IsUpdate(e) == e[1] = "update"
IsClose(e) == e[1] = "close"

FailsAtFirstAbsent ==
    /\ ret = Raised(Raise("FileNotFoundError", 119))
    /\ SelectSeq(log, IsOpen) = OpensUpTo(FirstAbsent)

\* C4 as stated: with missing_ok false and some visited file absent, query
\* fails with the missing-file error at the first absent combination in
\* iteration order, opens no file after it and returns no result.
C4_FailsAtFirstAbsent ==
    (Queried /\ ~call.missing_ok /\ \E j \in 1..Total : AbsentAt(j)) =>
        FailsAtFirstAbsent

\* C4 amended: the same, provided every file visited before the first absent
\* one is well-formed.
C4_FailsAtFirstAbsentAfterSoundFiles ==
    (/\ Queried
     /\ ~call.missing_ok
     /\ \E j \in 1..Total : AbsentAt(j)
     /\ \A i \in 1..(FirstAbsent - 1) : Visited(i) => SoundAt(i)) =>
        FailsAtFirstAbsent

\* two files are read, the third visited one is absent, a later one too
C4_Witness ==
    /\ Queried
    /\ ~call.missing_ok
    /\ ret = Raised(Raise("FileNotFoundError", 119))
    /\ Len(SelectSeq(log, IsOpen)) = 3
    /\ \E j \in 1..Total : AbsentAt(j) /\ j > FirstAbsent

\* C5: when a progress bar is supplied and query completes, it is advanced
\* once per combination of the selection, so the advances number
\* len(data) * len(key) * len(measure), the total it was constructed with,
\* and it is closed once, after the last advance.
C5_AdvancesEqualTotal ==
    (Completed /\ call.tqdm) =>
        /\ log[1] = <<"tqdm", Total>>
        /\ Len(SelectSeq(log, IsUpdate)) = Total
        /\ Len(SelectSeq(log, IsClose)) = 1
        /\ IsClose(log[Len(log)])

AllPresentSound ==
    \A p \in DOMAIN fs : \E t \in Triples : p = PathOf(t) /\ fs[p] = WellFormed(t[1], t[2], t[3])

\* C9: with missing_ok true and every present file well-formed, query returns
\* normally for any lists, and the absent combinations are not in the result.
C9_MissingNeverFails ==
    (Queried /\ call.missing_ok /\ AllPresentSound) =>
        /\ ret.status = "returned"
        /\ \A d \in Range(q_data), k \in Range(q_key), m \in Range(q_measure) :
               ~Present(d, k, m) => ~InResult(d, k, m)

-----------------------------------------------------------------------------
(* Properties of the metadata index.  A composition f(g(i)) is the state    *)
(* after f was passed what g returned: hist holds g's call, call holds f's. *)

Looked(op) == pc = "returned" /\ call.op = op
Prev == hist[Len(hist)]
PrevLooked(op) == Len(hist) > 0 /\ Prev.op = op

\* C6 as stated: for every id i of the manifest, get_uid(get_uid(i)) succeeds
\* and equals get_uid(i).
C6_CanonicalIdempotent ==
    (Looked("get_uid") /\ PrevLooked("get_uid") /\ str(Prev.arg) \in meta_ids) =>
        ret = Returned(call.arg)

\* C6 amended: for every id i of the manifest whose get_uid(i) is one of
\* non_isomorph_ids, get_uid(get_uid(i)) succeeds and equals get_uid(i).
C6_IdempotentOnCanonical ==
    (/\ Looked("get_uid")
     /\ PrevLooked("get_uid")
     /\ str(Prev.arg) \in meta_ids
     /\ call.arg.v \in Range(non_isomorph_ids)) =>
        ret = Returned(call.arg)

\* get_uid was applied to the canonical id of an id that is not canonical itself
C6_Witness ==
    /\ Looked("get_uid")
    /\ PrevLooked("get_uid")
    /\ str(Prev.arg) \in meta_ids
    /\ call.arg.v \in Range(non_isomorph_ids)
    /\ str(Prev.arg) # call.arg.v
    /\ ret = Returned(call.arg)

\* the manifest items that carry the encoding s, and the id of the last of them
Sharing(s) == {j \in 1..Len(meta) : meta[j].nb201_string = s}
LastWith(s) == meta[CHOOSE j \in Sharing(s) : \A l \in Sharing(s) : l <= j].id

\* C7: for every id i of the manifest, string_to_id(id_to_string(i)) succeeds
\* and returns an id j with id_to_string(j) = id_to_string(i); j is the id of
\* the last item with that encoding, and differs from i only when several
\* ids share the encoding.
C7_RoundTrip ==
    /\ (Looked("string_to_id") /\ PrevLooked("id_to_string")
            /\ str(Prev.arg) \in meta_ids) =>
           /\ ret = Returned(PyStr(LastWith(call.arg.v)))
           /\ ret.value.v # str(Prev.arg) => Cardinality(Sharing(call.arg.v)) > 1
    /\ (Looked("id_to_string") /\ PrevLooked("string_to_id") /\ Len(hist) > 1
            /\ hist[Len(hist) - 1].op = "id_to_string"
            /\ str(hist[Len(hist) - 1].arg) \in meta_ids) =>
           ret = hist[Len(hist) - 1].ret

\* id_to_string(string_to_id(id_to_string(i))) was computed and the round
\* trip landed on another id
C7_Witness ==
    /\ Looked("id_to_string")
    /\ PrevLooked("string_to_id")
    /\ Len(hist) > 1
    /\ hist[1].op = "id_to_string"
    /\ str(hist[1].arg) \in meta_ids
    /\ call.arg.v # str(hist[1].arg)
    /\ ret = hist[1].ret

\* the ids of the items whose isomorph field is their own id, in manifest order
SelfIsomorph(e) == e.isomorph = e.id
CanonicalInOrder ==
    LET own == SelectSeq(meta, SelfIsomorph) IN [j \in 1..Len(own) |-> own[j].id]

\* C8: non_isomorph_ids holds exactly the ids whose isomorph field is their own
\* id, each once and in manifest order; c is in it iff get_uid(c) == c; for the
\* manifest {0: (A, 0), 1: (B, 0)} it is ["0"] and get_uid("1") is "0".
C8_CanonicalIds ==
    /\ non_isomorph_ids = CanonicalInOrder
    /\ Looked("get_uid") =>
           ((ret = Returned(call.arg)) <=>
                (call.arg.t = "str" /\ call.arg.v \in Range(non_isomorph_ids)))
    /\ meta = ExampleManifest =>
           /\ non_isomorph_ids = <<"0">>
           /\ (Looked("get_uid") /\ call.arg = PyStr("1")) => ret = Returned(PyStr("0"))

\* get_uid("1") was called on the example manifest
C8_Witness ==
    /\ meta = ExampleManifest
    /\ non_isomorph_ids = <<"0">>
    /\ Looked("get_uid")
    /\ call.arg = PyStr("1")
    /\ ret = Returned(PyStr("0"))

\* C10: no call, returning or raising, changes meta, map_str_to_id,
\* non_isomorph_ids or the module-level default lists.
C10_IndexImmutable ==
    [][/\ meta' = meta
       /\ map_str_to_id' = map_str_to_id
       /\ non_isomorph_ids' = non_isomorph_ids
       /\ DATA_ALL' = DATA_ALL
       /\ KEYS_ALL' = KEYS_ALL
       /\ KEYS_CC' = KEYS_CC
       /\ measure_default' = measure_default]_vars

\* a query that used all three default lists has returned, and the index and
\* the lists are as the constructor and the module left them
C10_Witness ==
    /\ Completed
    /\ call.data = Default /\ call.key = Default /\ call.measure = Default
    /\ meta = ExampleManifest
    /\ map_str_to_id = ("A" :> "0" @@ "B" :> "1")
    /\ non_isomorph_ids = <<"0">>
    /\ DATA_ALL = <<"cifar10", "cifar100", "ImageNet16-120">>
    /\ Len(KEYS_ALL) = 20 /\ Len(KEYS_CC) = 15
    /\ measure_default = <<"accuracy", "confidence", "cm">>

=============================================================================
